---- MODULE Spec2Model ----
(***************************************************************************)
(* A model of pyais.py: the MQTT message handler on_message with its       *)
(* throttle (should_process_message), its name resolution                  *)
(* (fetch_name_from_aishub and the name cache), the per-topic 60-minute    *)
(* window of sightings, the JSON state file (save_mmsi_data and            *)
(* load_mmsi_data, also across a stop and start of the process) and the    *)
(* publish to Home Assistant.                                              *)
(*                                                                         *)
(* Time is counted in seconds.  time.time() and datetime.now() read the    *)
(* same system clock, the variable now; one run of on_message happens at   *)
(* one instant of it.                                                      *)
(***************************************************************************)
EXTENDS Integers, Sequences, FiniteSets, TLC

VARIABLES
    now,                 \* the system clock
    mmsi_data,           \* topic -> sequence of <<mmsi, timestamp>>
    mmsi_name_lookup,    \* str(mmsi) -> name
    throttle_tracker,    \* "<mmsi>_<type>" -> time of last processing
    LAST_AISHUB_CALL,    \* the rate-limit clock of the AISHub lookup
    saved,               \* the file DATA_FILE_PATH: <<>> or <<image>>
    MMSI_TYPE_THROTTLE,  \* the configured throttle rules (a sequence)
    IGNORE_TYPES,        \* the configured ignore list (strings, unparsed)
    last,                \* what the latest run of on_message (or restart) did
    requestLog,          \* time of the latest HTTP request to AISHub
    admitLog             \* throttle key -> time should_process_message last returned True

vars == <<now, mmsi_data, mmsi_name_lookup, throttle_tracker, LAST_AISHUB_CALL,
          saved, MMSI_TYPE_THROTTLE, IGNORE_TYPES, last, requestLog, admitLog>>

(***************************************************************************)
(* Python values.                                                          *)
(***************************************************************************)
\* None where a string is expected (dict.get of an absent key)
None == "<None>"
\* None where a number is expected
NoneInt == -1

Truthy(s) == s # None /\ s # ""
TruthyInt(n) == n # NoneInt /\ n # 0

\* str(x) and the f-string rendering of a number or of None
PyStr(n) == IF n = NoneInt THEN "None" ELSE ToString(n)

EmptyMap == [x \in {} |-> 0]
Get(f, k, d) == IF k \in DOMAIN f THEN f[k] ELSE d
Put(f, k, v) == [x \in (DOMAIN f) \cup {k} |-> IF x = k THEN v ELSE f[x]]

(***************************************************************************)
(* Program constants.                                                      *)
(***************************************************************************)
AISHUB_RATE_LIMIT == 60
DefaultThrottleInterval == 30
WindowMinutes == 60
WindowSeconds == WindowMinutes * 60
Unknown == "Unknown"

(***************************************************************************)
(* Bounds of the model.                                                    *)
(***************************************************************************)
\* the clock at start-up (seconds since the epoch; any value beyond every interval)
StartTime == 5000
\* the longest window a topic is filled to
MaxLen == 2

\* the instants d seconds after start-up
After(ds) == {StartTime + d : d \in ds}

MQTT_TOPICS == {"ais/a", "ais/b"}
FetchNames == {"POLARIS", Unknown}

(***************************************************************************)
(* The environment's inputs.                                               *)
(***************************************************************************)
\* A payload json.loads accepts, as the four fields on_message reads from it.
Message(mmsi, shipname, name, type) ==
    [wellformed |-> TRUE, mmsi |-> mmsi, shipname |-> shipname, name |-> name,
     type |-> type]
\* A payload json.loads rejects.
Malformed ==
    [wellformed |-> FALSE, mmsi |-> NoneInt, shipname |-> None, name |-> None,
     type |-> NoneInt]

\* What one HTTP request to AISHub can come to.
\*   neterr   requests.get raises (no connection, timeout)
\*   httperr  raise_for_status raises
\*   badjson  response.json() raises
\*   errfield the reply's element 0 carries a true ERROR
\*   badshape the reply is JSON of another shape (evaluating it may raise)
\*   ok       the reply has the documented shape; name is its NAME (None: absent)
FetchOutcomes ==
    {[kind |-> k, name |-> None] :
        k \in {"neterr", "httperr", "badjson", "errfield", "badshape"}}
    \cup {[kind |-> "ok", name |-> n] : n \in FetchNames \cup {None, ""}}
NoOutcome == [kind |-> "none", name |-> None]

\* What one write of the state file can come to: written, open() raised (the
\* file is left as it was), json.dump raised part-way (the file is cut short).
SaveResults == {"ok", "openfail", "writefail"}

\* What the HTTP request of post_to_home_assistant can come to: delivered,
\* requests raised a RequestException, something else was raised.
PostResults == {"ok", "reqerr", "othererr"}

\* A throttle rule of MMSI_TYPE_THROTTLE; throttleInterval = NoneInt: key absent.
Rule(mmsi, type, interval) ==
    [mmsi |-> mmsi, type |-> type, throttleInterval |-> interval]

(***************************************************************************)
(* should_process_message                                                  *)
(***************************************************************************)
ThrottleKey(mmsi, msg_type) == PyStr(mmsi) \o "_" \o PyStr(msg_type)

\* The "mmsi" of a rule meant for every vessel ("*" or the like): a JSON
\* value that no message has as its mmsi.
Wildcard == -2

\* RuleMatches with a wildcard rule matching every vessel.
RuleMatchesWildcard(rule, mmsi, msg_type) ==
    (rule.mmsi = Wildcard \/ rule.mmsi = mmsi) /\ rule.type = msg_type

\* the test of line 316
RuleMatches(rule, mmsi, msg_type) == rule.mmsi = mmsi /\ rule.type = msg_type

RuleInterval(rule) ==
    IF rule.throttleInterval = NoneInt THEN DefaultThrottleInterval
    ELSE rule.throttleInterval

\* TooSoon with the bound included.
TooSoonInclusive(current_time, last_processed_time, throttle_interval) ==
    current_time - last_processed_time <= throttle_interval

\* the test of line 323
TooSoon(current_time, last_processed_time, throttle_interval) ==
    current_time - last_processed_time < throttle_interval

\* The loop over the rules from rule i on, with the tracker as it is by then:
\* [allow, tracker].
RECURSIVE ThrottleLoop(_, _, _, _, _, _)
ThrottleLoop(rules, i, tracker, mmsi, msg_type, t) ==
    IF i > Len(rules) THEN [allow |-> TRUE, tracker |-> tracker]
    ELSE IF RuleMatches(rules[i], mmsi, msg_type)
         THEN LET throttle_key == ThrottleKey(mmsi, msg_type)
                  last_processed_time == Get(tracker, throttle_key, 0)
              IN  IF TooSoon(t, last_processed_time, RuleInterval(rules[i]))
                  THEN [allow |-> FALSE, tracker |-> tracker]
                  ELSE ThrottleLoop(rules, i + 1, Put(tracker, throttle_key, t),
                                    mmsi, msg_type, t)
         ELSE ThrottleLoop(rules, i + 1, tracker, mmsi, msg_type, t)

should_process_message(rules, tracker, mmsi, msg_type, t) ==
    ThrottleLoop(rules, 1, tracker, mmsi, msg_type, t)

(***************************************************************************)
(* fetch_name_from_aishub                                                  *)
(***************************************************************************)
\* the rate-limit test of lines 91-92
CoolingDown(t, last_call) == t - last_call < AISHUB_RATE_LIMIT

\* Whether the run reaches line 106, which advances LAST_AISHUB_CALL: the
\* three calls before it in the try block have all returned.
ReachesTokenUpdate(outcome) == outcome.kind \notin {"neterr", "httperr", "badjson"}

\* The exception raised in the try block of lines 95-119: requests raises a
\* RequestException; decoding the body and indexing a reply of another shape
\* raise other exceptions (ValueError, KeyError, IndexError, TypeError).
Raised(outcome) ==
    CASE outcome.kind \in {"neterr", "httperr"} -> "RequestException"
      [] outcome.kind \in {"badjson", "badshape"} -> "Exception"
      [] OTHER -> "none"

\* Caught with the first except clause only.
CaughtRequestOnly(exception) == exception = "RequestException"

\* the except clauses of lines 121-124
Caught(exception) == exception \in {"RequestException", "Exception"}

\* [name, last_call, issued, raised]: the name returned (None: no name), the
\* rate-limit clock afterwards, whether the HTTP request was sent, and
\* whether an exception leaves the function.
fetch_name_from_aishub(last_call, t, outcome) ==
    IF CoolingDown(t, last_call)
    THEN [name |-> None, last_call |-> last_call, issued |-> FALSE,
          raised |-> FALSE]
    ELSE [name |-> IF outcome.kind = "ok" /\ Truthy(outcome.name)
                   THEN outcome.name ELSE None,
          last_call |-> IF ReachesTokenUpdate(outcome) THEN t ELSE last_call,
          issued |-> TRUE,
          raised |-> Raised(outcome) # "none" /\ ~Caught(Raised(outcome))]

(***************************************************************************)
(* The state file: save_mmsi_data and load_mmsi_data                       *)
(***************************************************************************)
\* Isoformat with the seconds left out.
IsoformatMinutes(t) == <<t \div 86400, (t % 86400) \div 3600, (t % 3600) \div 60, 0>>

\* datetime.isoformat(), as the fields of its text: <<days, hours, minutes,
\* seconds>>, and datetime.fromisoformat(), which reads them back.
Isoformat(t) == <<t \div 86400, (t % 86400) \div 3600, (t % 3600) \div 60, t % 60>>
FromIsoformat(s) == s[1] * 86400 + s[2] * 3600 + s[3] * 60 + s[4]

\* raw_data of save_mmsi_data: what json.dump writes.
RawData(data, lookup) ==
    [valid |-> TRUE,
     mmsi_data |->
        [topic \in DOMAIN data |->
            [i \in 1..Len(data[topic]) |->
                [mmsi |-> data[topic][i][1],
                 timestamp |-> Isoformat(data[topic][i][2])]]],
     mmsi_name_lookup |-> lookup]

\* A file json.dump did not finish: json.load raises on it.
Truncated ==
    [valid |-> FALSE, mmsi_data |-> EmptyMap, mmsi_name_lookup |-> EmptyMap]

\* SaveReturns without the try block.
SaveReturnsOnSuccess(result) == result = "ok"

\* Whether save_mmsi_data returns to its caller: it does when the write
\* succeeds, and lines 161-162 catch every exception of a write that fails.
SaveReturns(result) == result = "ok" \/ result \in {"openfail", "writefail"}

\* One call of save_mmsi_data with raw_data = image, on the file as it is.
save_mmsi_data(file, image, result) ==
    CASE result = "ok" -> <<image>>
      [] result = "openfail" -> file
      [] OTHER -> <<Truncated>>

\* The file after the calls of save_mmsi_data of one run of on_message:
\* images[i] is what call i writes, results[i] what comes of it.
RECURSIVE SaveAll(_, _, _, _)
SaveAll(file, images, results, i) ==
    IF i > Len(images) THEN file
    ELSE SaveAll(save_mmsi_data(file, images[i], results[i]), images, results, i + 1)

\* load_mmsi_data: [mmsi_data, mmsi_name_lookup] after it, from the globals
\* before it (it leaves them alone when the file cannot be read).
load_mmsi_data(file, data, lookup) ==
    IF file = <<>> THEN [mmsi_data |-> EmptyMap, mmsi_name_lookup |-> EmptyMap]
    ELSE IF ~file[1].valid THEN [mmsi_data |-> data, mmsi_name_lookup |-> lookup]
    ELSE [mmsi_data |->
             [topic \in DOMAIN file[1].mmsi_data |->
                 [i \in 1..Len(file[1].mmsi_data[topic]) |->
                     <<file[1].mmsi_data[topic][i].mmsi,
                       FromIsoformat(file[1].mmsi_data[topic][i].timestamp)>>]],
          mmsi_name_lookup |-> file[1].mmsi_name_lookup]

(***************************************************************************)
(* on_message, lines 232-264: the name                                     *)
(***************************************************************************)
\* NameBranch with the generic name winning over the shipname.
NameBranchNameFirst(shipname, name) ==
    IF Truthy(shipname) /\ Truthy(name) THEN "name"
    ELSE IF ~Truthy(name) /\ Truthy(shipname) THEN "shipname"
    ELSE IF ~Truthy(name) THEN "noname"
    ELSE "name"

\* Which arm of the if/elif chain of lines 233-258 runs.
NameBranch(shipname, name) ==
    IF Truthy(shipname) /\ Truthy(name) THEN "both"
    ELSE IF ~Truthy(name) /\ Truthy(shipname) THEN "shipname"
    ELSE IF ~Truthy(name) THEN "noname"
    ELSE "name"

\* Cacheable without the test for an existing entry.
CacheableAlways(name, key, lookup) == name # Unknown

\* the guard of line 261
Cacheable(name, key, lookup) == name # Unknown /\ key \notin DOMAIN lookup

\* LookupName that never finds the identifier in the cache.
LookupNameCacheBlind(lookup, mmsi, last_call, t, outcome) ==
    LET key == PyStr(mmsi)
        f == fetch_name_from_aishub(last_call, t, outcome)
    IN  IF Truthy(f.name)
        THEN [name |-> f.name, lookup |-> Put(lookup, key, f.name),
              last_call |-> f.last_call, fetch |-> "issued", source |-> "lookup",
              writes |-> <<Put(lookup, key, f.name)>>, raised |-> FALSE]
        ELSE [name |-> Unknown, lookup |-> lookup, last_call |-> f.last_call,
              fetch |-> IF f.issued THEN "issued" ELSE "skipped",
              source |-> "fallback", writes |-> <<>>, raised |-> f.raised]

\* Lines 239-256, the arm for a message with no name: [name, lookup,
\* last_call, fetch, source, writes, raised], where fetch is "none",
\* "skipped" or "issued", writes are the caches save_mmsi_data was called
\* with, and raised tells that an exception left fetch_name_from_aishub.
LookupName(lookup, mmsi, last_call, t, outcome) ==
    LET key == PyStr(mmsi)
        cached == Get(lookup, key, None)
        f == fetch_name_from_aishub(last_call, t, outcome)
    IN  IF Truthy(cached)
        THEN [name |-> cached, lookup |-> lookup, last_call |-> last_call,
              fetch |-> "none", source |-> "cache", writes |-> <<>>,
              raised |-> FALSE]
        ELSE IF Truthy(f.name)
        THEN [name |-> f.name, lookup |-> Put(lookup, key, f.name),
              last_call |-> f.last_call, fetch |-> "issued", source |-> "lookup",
              writes |-> <<Put(lookup, key, f.name)>>, raised |-> FALSE]
        ELSE [name |-> Unknown, lookup |-> lookup, last_call |-> f.last_call,
              fetch |-> IF f.issued THEN "issued" ELSE "skipped",
              source |-> "fallback", writes |-> <<>>, raised |-> f.raised]

\* Lines 232-258.
ChooseName(lookup, mmsi, shipname, name, last_call, t, outcome) ==
    LET branch == NameBranch(shipname, name)
    IN  IF branch = "noname" THEN LookupName(lookup, mmsi, last_call, t, outcome)
        ELSE [name |-> IF branch = "name" THEN name ELSE shipname,
              lookup |-> lookup, last_call |-> last_call, fetch |-> "none",
              source |-> IF branch = "name" THEN "name" ELSE "shipname",
              writes |-> <<>>, raised |-> FALSE]

\* Lines 232-264: the name chosen, then the cache entry of lines 261-263.
ResolveName(lookup, mmsi, shipname, name, last_call, t, outcome) ==
    LET r == ChooseName(lookup, mmsi, shipname, name, last_call, t, outcome)
        key == PyStr(mmsi)
    IN  IF Cacheable(r.name, key, r.lookup)
        THEN [r EXCEPT !.lookup = Put(r.lookup, key, r.name),
                       !.writes = Append(r.writes, Put(r.lookup, key, r.name))]
        ELSE r

(***************************************************************************)
(* on_message, lines 266-285: the window of the topic                      *)
(***************************************************************************)
\* Retained with the cutoff itself kept.
RetainedInclusive(timestamp, cutoff) == timestamp >= cutoff

\* the filter of line 275
Retained(timestamp, cutoff) == timestamp > cutoff

\* VesselCount counting sightings, not vessels.
VesselCountSightings(entries) == Len(entries)

\* Lines 284-285: vessel_count of the entries of a window.
VesselCount(entries) == Cardinality({entries[i][1] : i \in 1..Len(entries)})

\* RecordSighting with the eviction applied to the window of every topic.
RecordSightingSweepAll(data, topic, mmsi, t) ==
    LET old == IF topic \in DOMAIN data THEN data[topic] ELSE <<>>
        appended == Append(old, <<mmsi, t>>)
        cutoff == t - WindowSeconds
        new_topic_data == SelectSeq(appended, LAMBDA e : Retained(e[2], cutoff))
        swept == [x \in DOMAIN data |->
                     SelectSeq(data[x], LAMBDA e : Retained(e[2], cutoff))]
    IN  [data |-> Put(swept, topic, new_topic_data),
         evicted |-> SelectSeq(appended, LAMBDA e : ~Retained(e[2], cutoff)),
         changed |-> Len(new_topic_data) # Len(appended),
         count |-> VesselCount(new_topic_data)]

\* [data, evicted, changed, count]: mmsi_data afterwards, the entries dropped,
\* whether line 278 found a change (and so saved), and vessel_count.
RecordSighting(data, topic, mmsi, t) ==
    LET old == IF topic \in DOMAIN data THEN data[topic] ELSE <<>>
        appended == Append(old, <<mmsi, t>>)
        cutoff == t - WindowSeconds
        new_topic_data == SelectSeq(appended, LAMBDA e : Retained(e[2], cutoff))
        evicted == SelectSeq(appended, LAMBDA e : ~Retained(e[2], cutoff))
        changed == Len(new_topic_data) # Len(appended)
        kept == IF changed THEN new_topic_data ELSE appended
    IN  [data |-> Put(data, topic, kept),
         evicted |-> evicted,
         changed |-> changed,
         count |-> VesselCount(kept)]

(***************************************************************************)
(* on_message, lines 215-224: the ignore filter and the throttle           *)
(***************************************************************************)
\* int() of the strings that occur in the model; it raises on any other.
IntLiterals == {"5", "24"}
ParseInt(s) == IF s = "5" THEN 5 ELSE 24

\* Line 216, set(map(int, IGNORE_TYPES)): [ok, types]; ok is FALSE when int()
\* raises (as it does on the '' that an unset IGNORE_TYPES splits into).
IgnoreSet(ignore) ==
    IF \E i \in 1..Len(ignore) : ignore[i] \notin IntLiterals
    THEN [ok |-> FALSE, types |-> {}]
    ELSE [ok |-> TRUE, types |-> {ParseInt(ignore[i]) : i \in 1..Len(ignore)}]

\* Filter with the throttle consulted before the ignore set.
FilterThrottleFirst(ignore, rules, tracker, mmsi, type, t) ==
    LET ignore_types == IgnoreSet(ignore)
        sp == should_process_message(rules, tracker, mmsi, type, t)
    IN  IF ~ignore_types.ok THEN [kind |-> "error", tracker |-> tracker]
        ELSE IF ~sp.allow THEN [kind |-> "throttled", tracker |-> sp.tracker]
        ELSE IF type \in ignore_types.types
        THEN [kind |-> "ignored", tracker |-> sp.tracker]
        ELSE [kind |-> "pass", tracker |-> sp.tracker]

\* Lines 215-224: [kind, tracker], kind being "error" (line 216 raised),
\* "ignored" (line 219), "throttled" (line 224) or "pass".
Filter(ignore, rules, tracker, mmsi, type, t) ==
    LET ignore_types == IgnoreSet(ignore)
        sp == should_process_message(rules, tracker, mmsi, type, t)
    IN  IF ~ignore_types.ok THEN [kind |-> "error", tracker |-> tracker]
        ELSE IF type \in ignore_types.types
        THEN [kind |-> "ignored", tracker |-> tracker]
        ELSE IF ~sp.allow THEN [kind |-> "throttled", tracker |-> sp.tracker]
        ELSE [kind |-> "pass", tracker |-> sp.tracker]

(***************************************************************************)
(* on_message                                                              *)
(***************************************************************************)
\* The payload handed to post_to_home_assistant.
Payload(topic, name, mmsi, vessel_count) ==
    [topic |-> topic, name |-> name, mmsi |-> mmsi,
     vesselsInLastHour |-> vessel_count]

\* A run of on_message that returns before line 232.
Drop(kind, tracker) ==
    [kind |-> kind, tracker |-> tracker, lookup |-> mmsi_name_lookup,
     last_call |-> LAST_AISHUB_CALL, data |-> mmsi_data, images |-> <<>>,
     fetch |-> "none", source |-> "none", posted |-> <<>>, evicted |-> <<>>]

\* A run of on_message on the state as it is, at the instant now: the state
\* it leaves and what it did, given what lines 215-224 (f), lines 232-264 (n)
\* and lines 266-285 (w) come to.  kind is where it ended:
\*   "unconfigured" line 193      "malformed" line 291     "error" line 293
\*   "ignored" line 219           "throttled" line 224     "nommsi" line 230
\*   "processed" line 288
\* images are the raw_data of its calls of save_mmsi_data, in order.
Handle(topic, msg, f, n, w) ==
    IF topic \notin MQTT_TOPICS THEN Drop("unconfigured", throttle_tracker)
    ELSE IF ~msg.wellformed THEN Drop("malformed", throttle_tracker)
    ELSE IF f.kind # "pass" THEN Drop(f.kind, f.tracker)
    ELSE IF ~TruthyInt(msg.mmsi) THEN Drop("nommsi", f.tracker)
    ELSE IF n.raised
    THEN [Drop("error", f.tracker) EXCEPT !.last_call = n.last_call,
                                          !.fetch = n.fetch]
    ELSE [kind |-> "processed", tracker |-> f.tracker, lookup |-> n.lookup,
          last_call |-> n.last_call, data |-> w.data,
          images |->
             [i \in 1..Len(n.writes) |-> RawData(mmsi_data, n.writes[i])]
             \o (IF w.changed THEN <<RawData(w.data, n.lookup)>> ELSE <<>>),
          fetch |-> n.fetch, source |-> n.source,
          posted |-> <<Payload(topic, n.name, msg.mmsi, w.count)>>,
          evicted |-> w.evicted]

\* The run r of Handle when its writes of the state file come to results:
\* [run, results].  A call of save_mmsi_data that does not return ends the
\* run at line 293, with the state as it is at that call (lines 252 and 263
\* come before the window is touched, line 280 before the publish) and the
\* calls after it not made.
Settle(r, n, results) ==
    LET lost == {i \in 1..Len(results) : ~SaveReturns(results[i])}
        first == CHOOSE i \in lost : \A j \in lost : i <= j
    IN  IF lost = {} THEN [run |-> r, results |-> results]
        ELSE IF first <= Len(n.writes)
        THEN [run |-> [r EXCEPT !.kind = "error", !.lookup = n.writes[first],
                                !.data = mmsi_data,
                                !.images = SubSeq(r.images, 1, first),
                                !.posted = <<>>, !.evicted = <<>>],
              results |-> SubSeq(results, 1, first)]
        ELSE [run |-> [r EXCEPT !.kind = "error",
                                !.images = SubSeq(r.images, 1, first),
                                !.posted = <<>>],
              results |-> SubSeq(results, 1, first)]

\* Nothing has been handled since the clock last moved.
Idle ==
    [kind |-> "idle", topic |-> "", msg |-> Malformed, outcome |-> NoOutcome,
     results |-> <<>>, fetch |-> "none", source |-> "none", posted |-> <<>>,
     evicted |-> <<>>, saves |-> 0, post |-> "none"]

Start(rules, ignore) ==
    /\ MMSI_TYPE_THROTTLE = rules
    /\ IGNORE_TYPES = ignore
    /\ now = StartTime
    /\ mmsi_data = EmptyMap
    /\ mmsi_name_lookup = EmptyMap
    /\ throttle_tracker = EmptyMap
    /\ LAST_AISHUB_CALL = 0
    /\ saved = <<>>
    /\ last = Idle
    /\ requestLog = NoneInt
    /\ admitLog = EmptyMap

\* on_message(client, userdata, message) at the instant now.  The world
\* chooses what comes of the HTTP request to AISHub, when the run sends one,
\* of each write of the state file (one of saveResults) and of the request
\* of post_to_home_assistant (one of postResults), which is the last
\* statement of the run: a RequestException is caught at line 179, any other
\* exception at line 292.
OnMessage(topic, msg, saveResults, postResults) ==
    \E f \in {Filter(IGNORE_TYPES, MMSI_TYPE_THROTTLE, throttle_tracker,
                     msg.mmsi, msg.type, now)} :
    \E w \in {RecordSighting(mmsi_data, topic, msg.mmsi, now)} :
    \E probe \in {Handle(topic, msg, f,
                         ResolveName(mmsi_name_lookup, msg.mmsi, msg.shipname,
                                     msg.name, LAST_AISHUB_CALL, now, NoOutcome),
                         w)} :
    \E outcome \in (IF probe.fetch = "issued" THEN FetchOutcomes ELSE {NoOutcome}) :
    \E n \in {ResolveName(mmsi_name_lookup, msg.mmsi, msg.shipname, msg.name,
                          LAST_AISHUB_CALL, now, outcome)} :
    \E whole \in {Handle(topic, msg, f, n, w)} :
    \E written \in [1..Len(whole.images) -> saveResults] :
    \E settled \in {Settle(whole, n, written)} :
    \E r \in {settled.run} :
    \E results \in {settled.results} :
    \E post \in (IF r.posted # <<>> THEN postResults ELSE {"none"}) :
    LET key == ThrottleKey(msg.mmsi, msg.type)
        admitted == r.kind \in {"nommsi", "processed"}
        matched == \E i \in 1..Len(MMSI_TYPE_THROTTLE) :
                       RuleMatches(MMSI_TYPE_THROTTLE[i], msg.mmsi, msg.type)
    IN  /\ \A t \in DOMAIN r.data : Len(r.data[t]) <= MaxLen
        /\ mmsi_data' = r.data
        /\ mmsi_name_lookup' = r.lookup
        /\ throttle_tracker' = r.tracker
        /\ LAST_AISHUB_CALL' = r.last_call
        /\ saved' = SaveAll(saved, r.images, results, 1)
        /\ requestLog' = IF r.fetch = "issued" THEN now ELSE requestLog
        /\ admitLog' = IF admitted /\ matched
                       THEN Put(admitLog, key, now) ELSE admitLog
        /\ last' = [kind |-> r.kind, topic |-> topic, msg |-> msg,
                    outcome |-> outcome, results |-> results, fetch |-> r.fetch,
                    source |-> r.source, posted |-> r.posted,
                    evicted |-> r.evicted, saves |-> Len(r.images),
                    post |-> post]
        /\ UNCHANGED <<now, MMSI_TYPE_THROTTLE, IGNORE_TYPES>>

\* The process is stopped from the keyboard and started again: lines 354-357
\* call save_mmsi_data a last time (with one of saveResults), the new process
\* starts from the values of lines 14-84 and main calls load_mmsi_data.
Restart(saveResults) ==
    \E result \in saveResults :
    \E file \in {save_mmsi_data(saved, RawData(mmsi_data, mmsi_name_lookup),
                                result)} :
    \E loaded \in {load_mmsi_data(file, EmptyMap, EmptyMap)} :
        /\ saved' = file
        /\ mmsi_data' = loaded.mmsi_data
        /\ mmsi_name_lookup' = loaded.mmsi_name_lookup
        /\ throttle_tracker' = EmptyMap
        /\ LAST_AISHUB_CALL' = 0
        /\ last' = [Idle EXCEPT !.kind = "restarted", !.results = <<result>>,
                                !.saves = 1]
        /\ UNCHANGED <<now, MMSI_TYPE_THROTTLE, IGNORE_TYPES, requestLog, admitLog>>

\* Time passes until the next of the instants a message arrives at.
Tick(instants) ==
    /\ \E t \in instants : t > now /\ now' = t
    /\ last' = Idle
    /\ UNCHANGED <<mmsi_data, mmsi_name_lookup, throttle_tracker, LAST_AISHUB_CALL,
                   saved, MMSI_TYPE_THROTTLE, IGNORE_TYPES, requestLog, admitLog>>

(***************************************************************************)
(* Spec: names.  No throttle rule; messages of two vessels on one topic,   *)
(* with and without names; every outcome of the AISHub request.            *)
(***************************************************************************)
NameMessages ==
    {Message(m, s, n, 5) :
        m \in {111, 222}, s \in {None, "ARGO"}, n \in {None, "", "BETA", Unknown}}

Init == Start(<<>>, <<"24">>)

Next ==
    \/ Tick(After({30, 60, 3600}))
    \/ \E msg \in NameMessages : OnMessage("ais/a", msg, {"ok"}, {"ok"})

Spec == Init /\ [][Next]_vars

(***************************************************************************)
(* SpecThrottle: the ignore filter and the throttle.  Rule lists with one  *)
(* rule, with two rules for different message types (one of them an        *)
(* ignored type, one with the default interval) and with two rules for the *)
(* same vessel and type, and with a rule whose "mmsi" is null;             *)
(* IGNORE_TYPES set to "24" and unset.  The messages carry a name, so no   *)
(* lookup is made.                                                         *)
(***************************************************************************)
ThrottleConfigs ==
    {<<<<Rule(111, 5, 60)>>, <<"24">>>>,
     <<<<Rule(111, 5, NoneInt), Rule(111, 24, 60)>>, <<"24">>>>,
     <<<<Rule(111, 5, 30), Rule(111, 5, 60)>>, <<"24">>>>,
     <<<<Rule(111, 5, 60)>>, <<"">>>>,
     <<<<Rule(NoneInt, 5, 30)>>, <<"24">>>>}

ThrottleMessages ==
    {Malformed} \cup
    {Message(m, None, "BETA", ty) : m \in {111, 222, NoneInt}, ty \in {5, 24, NoneInt}}

InitThrottle == \E cfg \in ThrottleConfigs : Start(cfg[1], cfg[2])

NextThrottle ==
    \/ Tick(After({30, 60, 90}))
    \/ \E msg \in ThrottleMessages : OnMessage("ais/a", msg, {"ok"}, {"ok"})
    \/ OnMessage("other", Message(111, None, "BETA", 5), {"ok"}, {"ok"})

SpecThrottle == InitThrottle /\ [][NextThrottle]_vars

(***************************************************************************)
(* SpecWindow: the windows.  Named sightings of two vessels on two topics, *)
(* at instants up to an hour and more apart.                               *)
(***************************************************************************)
WindowMessages == {Message(m, None, "BETA", 5) : m \in {111, 222}}

NextWindow ==
    \/ Tick(After({30, 3600, 3630}))
    \/ \E topic \in MQTT_TOPICS, msg \in WindowMessages : OnMessage(topic, msg, {"ok"}, {"ok"})

SpecWindow == Init /\ [][NextWindow]_vars

(***************************************************************************)
(* SpecWildcard: a rule list with a wildcard rule and a rule for one       *)
(* vessel, both for the type every message has.                            *)
(***************************************************************************)
InitWildcard == Start(<<Rule(Wildcard, 5, 60), Rule(222, 5, 60)>>, <<"24">>)

NextWildcard ==
    \/ Tick(After({30, 60, 90}))
    \/ \E msg \in WindowMessages : OnMessage("ais/a", msg, {"ok"}, {"ok"})

SpecWildcard == InitWildcard /\ [][NextWildcard]_vars

(***************************************************************************)
(* SpecStore: the state file and the publisher.  Named sightings of two    *)
(* vessels on one topic and of one of them on another, an hour apart;      *)
(* every write of the state file and every publish may fail; the process   *)
(* may be stopped and started again.                                       *)
(***************************************************************************)
NextStore ==
    \/ Tick(After({3600}))
    \/ \E msg \in WindowMessages : OnMessage("ais/a", msg, SaveResults, PostResults)
    \/ OnMessage("ais/b", Message(111, None, "BETA", 5), SaveResults, PostResults)
    \/ Restart(SaveResults)

SpecStore == Init /\ [][NextStore]_vars

\* The latest run of on_message reached line 288; Posted is what it published.
Processed == last.kind = "processed"
PostedName == last.posted[1].name
AllWritten == \A i \in 1..Len(last.results) : last.results[i] = "ok"

(***************************************************************************)
(* C2.  The HTTP request of fetch_name_from_aishub is sent at most once     *)
(* per cooldown interval: whenever a run of on_message sends it, at least  *)
(* AISHUB_RATE_LIMIT seconds have passed since the request before it,      *)
(* whether that one succeeded or failed.                                   *)
(***************************************************************************)
C2_OncePerCooldown ==
    [][(last'.fetch = "issued" /\ requestLog # NoneInt)
         => now' - requestLog >= AISHUB_RATE_LIMIT]_vars

(***************************************************************************)
(* C3.  A run that sends the request leaves LAST_AISHUB_CALL = now, for    *)
(* every outcome of the request; a run whose lookup the cooldown skips     *)
(* leaves LAST_AISHUB_CALL as it was.                                      *)
(***************************************************************************)
C3_TokenAdvancesOnEveryOutcome ==
    [][/\ last'.fetch = "issued" => LAST_AISHUB_CALL' = now'
       /\ last'.fetch = "skipped" => LAST_AISHUB_CALL' = LAST_AISHUB_CALL]_vars

(***************************************************************************)
(* C4.  After a run of on_message that recorded a sighting (every run that *)
(* reaches the publish has appended to its topic's window), the state file *)
(* has been written and holds the windows and the name cache as they are   *)
(* in memory at the end of the run, provided the writes succeeded.         *)
(***************************************************************************)
C4_SavedEqualsMemory ==
    (Processed /\ AllWritten) =>
        /\ last.saves >= 1
        /\ saved # <<>>
        /\ load_mmsi_data(saved, EmptyMap, EmptyMap) =
              [mmsi_data |-> mmsi_data, mmsi_name_lookup |-> mmsi_name_lookup]

(***************************************************************************)
(* C9.  A run of on_message whose resolved (published) name is the         *)
(* fallback sentinel "Unknown" leaves the name cache as it was: it adds no *)
(* entry and overwrites none, whatever came of the external lookup.        *)
(***************************************************************************)
C9_FallbackNeverCached ==
    [][(last'.kind = "processed" /\ last'.posted[1].name = Unknown)
         => mmsi_name_lookup' = mmsi_name_lookup]_vars

(***************************************************************************)
(* C10.  The published name follows the priority chain: shipname if        *)
(* present (non-empty), else name if present, else the cache entry of the  *)
(* identifier if there is one, else the name the external lookup returns   *)
(* if the cooldown permits the lookup and it returns one, else "Unknown".  *)
(***************************************************************************)
ChainName(shipname, name, cache, id, permitted, outcome) ==
    IF Truthy(shipname) THEN shipname
    ELSE IF Truthy(name) THEN name
    ELSE IF id \in DOMAIN cache THEN cache[id]
    ELSE IF permitted /\ outcome.kind = "ok" /\ Truthy(outcome.name)
         THEN outcome.name
    ELSE Unknown

C10_PriorityChain ==
    [][last'.kind = "processed" =>
         last'.posted[1].name =
            ChainName(last'.msg.shipname, last'.msg.name, mmsi_name_lookup,
                      PyStr(last'.msg.mmsi),
                      now - LAST_AISHUB_CALL >= AISHUB_RATE_LIMIT,
                      last'.outcome)]_vars

\* a message with both names was published under its shipname
C10_Witness ==
    /\ Processed
    /\ Truthy(last.msg.shipname) /\ Truthy(last.msg.name)
    /\ last.msg.shipname # last.msg.name
    /\ PostedName = last.msg.shipname

\* The rules of the configuration that match the sighting of a message.
MatchingRules(msg) ==
    {i \in 1..Len(MMSI_TYPE_THROTTLE) :
        RuleMatches(MMSI_TYPE_THROTTLE[i], msg.mmsi, msg.type)}
\* Whether a run ended at or after the call of should_process_message.
ReachedThrottle(kind) == kind \in {"throttled", "nommsi", "processed"}
\* The engine state a suppressed or filtered message must leave alone.
EngineState ==
    <<mmsi_data, mmsi_name_lookup, throttle_tracker, LAST_AISHUB_CALL, saved>>

(***************************************************************************)
(* C5.  A message whose type is in the ignore set leaves the windows, the  *)
(* name cache, the throttle state, the rate-limit token and the state file *)
(* unchanged and is not published: the ignore filter comes before          *)
(* should_process_message, which would otherwise record the sighting in    *)
(* the throttle state.                                                     *)
(***************************************************************************)
C5_IgnoredLeavesNoTrace ==
    [][(last'.kind # "idle" /\ last'.msg.wellformed
        /\ last'.msg.type \in IgnoreSet(IGNORE_TYPES).types)
         => /\ UNCHANGED EngineState
            /\ last'.posted = <<>>
            /\ ~ReachedThrottle(last'.kind)]_vars

\* an ignored message that a throttle rule matches and would have admitted,
\* arriving when a window and the cache already hold entries
C5_Witness ==
    /\ last.kind = "ignored"
    /\ MatchingRules(last.msg) # {}
    /\ ThrottleKey(last.msg.mmsi, last.msg.type) \notin DOMAIN throttle_tracker
    /\ mmsi_data # EmptyMap /\ mmsi_name_lookup # EmptyMap

(***************************************************************************)
(* C6.  With exactly one rule {id, type, interval I} matching: once a      *)
(* sighting of (id, type) was admitted at t0, a sighting at t0 + D with    *)
(* D < I is suppressed, changing no engine state and publishing nothing,   *)
(* and one at t0 + I or later is admitted and sets lastProcessedAt to its  *)
(* own time.                                                               *)
(***************************************************************************)
C6_SingleRuleThrottle ==
    [][(/\ ReachedThrottle(last'.kind)
        /\ Cardinality(MatchingRules(last'.msg)) = 1
        /\ ThrottleKey(last'.msg.mmsi, last'.msg.type) \in DOMAIN admitLog)
         => LET key == ThrottleKey(last'.msg.mmsi, last'.msg.type)
                rule == MMSI_TYPE_THROTTLE[CHOOSE i \in MatchingRules(last'.msg) : TRUE]
            IN  IF now' - admitLog[key] < RuleInterval(rule)
                THEN /\ last'.kind = "throttled"
                     /\ UNCHANGED EngineState
                     /\ last'.posted = <<>>
                ELSE /\ last'.kind # "throttled"
                     /\ throttle_tracker'[key] = now']_vars

\* a sighting suppressed D seconds after the admitted one, 0 < D < I
C6_Witness ==
    /\ last.kind = "throttled"
    /\ Cardinality(MatchingRules(last.msg)) = 1
    /\ ThrottleKey(last.msg.mmsi, last.msg.type) \in DOMAIN admitLog
    /\ now - admitLog[ThrottleKey(last.msg.mmsi, last.msg.type)] > 0
    /\ mmsi_data # EmptyMap

(***************************************************************************)
(* C7.  A call of should_process_message that denies the sighting leaves   *)
(* the throttle state unchanged, whatever the rule list.                   *)
(***************************************************************************)
C7_DenialLeavesThrottleState ==
    [][last'.kind = "throttled" => throttle_tracker' = throttle_tracker]_vars

(***************************************************************************)
(* C8.  should_process_message admits a sighting exactly when, for every   *)
(* rule matching its identifier and type, now - lastProcessedAt >= the     *)
(* rule's interval, lastProcessedAt being the throttle state before the    *)
(* call (0 when there is none).                                            *)
(***************************************************************************)
C8_AdmitsIffEveryRuleElapsed ==
    [][ReachedThrottle(last'.kind) =>
        ((last'.kind # "throttled") <=>
            \A i \in MatchingRules(last'.msg) :
                now' - Get(throttle_tracker,
                           ThrottleKey(last'.msg.mmsi, last'.msg.type), 0)
                    >= RuleInterval(MMSI_TYPE_THROTTLE[i]))]_vars

(***************************************************************************)
(* C1.  After the record step of on_message for a topic at time now, every *)
(* entry retained in the topic's window is less than 60 minutes old, and   *)
(* every entry the step evicted is 60 minutes old or older: the boundary   *)
(* is strict.                                                              *)
(***************************************************************************)
C1_WindowHoldsLastHour ==
    Processed =>
        /\ \A i \in 1..Len(mmsi_data[last.topic]) :
               now - mmsi_data[last.topic][i][2] < WindowMinutes * 60
        /\ \A i \in 1..Len(last.evicted) :
               now - last.evicted[i][2] >= WindowMinutes * 60

\* a step that evicted an entry exactly 60 minutes old and kept an older
\* sighting that was 59.5 minutes old
C1_Witness ==
    /\ Processed
    /\ \E i \in 1..Len(last.evicted) : now - last.evicted[i][2] = WindowMinutes * 60
    /\ \E i \in 1..Len(mmsi_data[last.topic]) :
           /\ now - mmsi_data[last.topic][i][2] > 0
           /\ now - mmsi_data[last.topic][i][2] < WindowMinutes * 60

(***************************************************************************)
(* C11.  A successful external lookup for an identifier stores the name it *)
(* returned in the cache; a message with no inline name whose identifier   *)
(* has a cache entry is published with that entry and sends no request;    *)
(* a message with an inline name sends no request; and a cache entry is    *)
(* never changed afterwards.  Together: once the lookup for id succeeded   *)
(* with N, every later nameless message for id is published as N without   *)
(* the lookup.                                                             *)
(***************************************************************************)
C11_CachedNameNeedsNoLookup ==
    [][last'.kind = "processed" =>
        LET id == PyStr(last'.msg.mmsi)
            inline == Truthy(last'.msg.shipname) \/ Truthy(last'.msg.name)
        IN  /\ (last'.fetch = "issued" /\ last'.outcome.kind = "ok"
                /\ Truthy(last'.outcome.name))
                  => /\ id \in DOMAIN mmsi_name_lookup'
                     /\ mmsi_name_lookup'[id] = last'.outcome.name
                     /\ last'.posted[1].name = last'.outcome.name
            /\ (~inline /\ id \in DOMAIN mmsi_name_lookup)
                  => /\ last'.posted[1].name = mmsi_name_lookup[id]
                     /\ last'.fetch = "none"
            /\ inline => last'.fetch = "none"
            /\ \A k \in DOMAIN mmsi_name_lookup :
                  k \in DOMAIN mmsi_name_lookup'
                  /\ mmsi_name_lookup'[k] = mmsi_name_lookup[k]]_vars

\* a nameless message answered from the cache with a name only the lookup
\* can have supplied, at a time the cooldown would have allowed a request
C11_Witness ==
    /\ Processed
    /\ ~Truthy(last.msg.shipname) /\ ~Truthy(last.msg.name)
    /\ PostedName = "POLARIS"
    /\ last.fetch = "none"
    /\ now - LAST_AISHUB_CALL >= AISHUB_RATE_LIMIT

(***************************************************************************)
(* C12.  The count published for a topic is the number of distinct         *)
(* identifiers among the entries its window holds after the eviction, and  *)
(* so never exceeds the number of those entries.                           *)
(***************************************************************************)
C12_CountIsDistinctRetained ==
    Processed =>
        /\ last.posted[1].vesselsInLastHour =
              Cardinality({e[1] : e \in
                  {mmsi_data[last.topic][i] : i \in 1..Len(mmsi_data[last.topic])}})
        /\ last.posted[1].vesselsInLastHour <= Len(mmsi_data[last.topic])

\* after an eviction, two retained sightings of one vessel count as one
C12_Witness ==
    /\ Processed
    /\ last.evicted # <<>>
    /\ Len(mmsi_data[last.topic]) = 2
    /\ last.posted[1].vesselsInLastHour = 1

(***************************************************************************)
(* C17.  A run of on_message for a topic changes no other topic's window:  *)
(* the entries of a topic that gets no traffic stay, expired or not.       *)
(***************************************************************************)
C17_OtherWindowsUntouched ==
    [][\A t \in DOMAIN mmsi_data :
          (last'.kind = "idle" \/ t # last'.topic)
             => (t \in DOMAIN mmsi_data' /\ mmsi_data'[t] = mmsi_data[t])]_vars

\* a sighting recorded on one topic while another topic's window still
\* holds an entry more than 60 minutes old
C17_Witness ==
    /\ Processed
    /\ \E t \in DOMAIN mmsi_data :
          /\ t # last.topic
          /\ \E i \in 1..Len(mmsi_data[t]) :
                now - mmsi_data[t][i][2] >= WindowMinutes * 60

(***************************************************************************)
(* C18.  A cache entry is written only when the identifier has none: an    *)
(* entry, once there, keeps its (non-empty) name through every later       *)
(* message, also one with another inline name, which is published but not  *)
(* cached; the set of cached identifiers only grows.                       *)
(***************************************************************************)
C18_CacheEntriesAreFinal ==
    [][/\ \A k \in DOMAIN mmsi_name_lookup :
             /\ k \in DOMAIN mmsi_name_lookup'
             /\ mmsi_name_lookup'[k] = mmsi_name_lookup[k]
       /\ \A k \in DOMAIN mmsi_name_lookup' : Truthy(mmsi_name_lookup'[k])]_vars

\* a message published under an inline name that differs from the cached one
C18_Witness ==
    /\ Processed
    /\ PyStr(last.msg.mmsi) \in DOMAIN mmsi_name_lookup
    /\ last.source \in {"name", "shipname"}
    /\ PostedName # Unknown
    /\ PostedName # mmsi_name_lookup[PyStr(last.msg.mmsi)]

(***************************************************************************)
(* C13.  A message on a configured topic that json.loads rejects, or that  *)
(* carries no mmsi, is dropped: the windows, the name cache, the throttle  *)
(* state, the rate-limit token and the state file are as before and        *)
(* nothing is published, whatever the throttle rules are.                  *)
(***************************************************************************)
C13_DroppedLeavesNoTrace ==
    [][(/\ last'.kind # "idle"
        /\ last'.topic \in MQTT_TOPICS
        /\ (~last'.msg.wellformed \/ last'.msg.mmsi = NoneInt))
         => /\ UNCHANGED EngineState
            /\ last'.posted = <<>>]_vars

(***************************************************************************)
(* C19.  A wildcard rule matches every vessel: under a wildcard rule for   *)
(* the type of the sightings, a published sighting of a vessel comes at    *)
(* least the rule's interval after the published sighting of that vessel   *)
(* before it (every message of SpecWildcard has the rule's type).          *)
(***************************************************************************)
C19_WildcardRuleThrottlesAll ==
    Processed =>
        \A r \in 1..Len(MMSI_TYPE_THROTTLE) :
            (MMSI_TYPE_THROTTLE[r].mmsi = Wildcard
             /\ MMSI_TYPE_THROTTLE[r].type = last.msg.type)
            => \A i \in 1..(Len(mmsi_data[last.topic]) - 1) :
                  mmsi_data[last.topic][i][1] = last.msg.mmsi
                  => now - mmsi_data[last.topic][i][2]
                        >= RuleInterval(MMSI_TYPE_THROTTLE[r])

(***************************************************************************)
(* C19, amended.  A rule applies to the sightings whose mmsi equals the    *)
(* rule's "mmsi" value and to no others: a sighting that no rule names by  *)
(* its own mmsi and type, wildcard rule or not, is never throttled and     *)
(* leaves the throttle state as it was.                                    *)
(***************************************************************************)
C19_RulesMatchExactly ==
    [][(/\ ReachedThrottle(last'.kind)
        /\ ~\E r \in 1..Len(MMSI_TYPE_THROTTLE) :
               /\ MMSI_TYPE_THROTTLE[r].mmsi = last'.msg.mmsi
               /\ MMSI_TYPE_THROTTLE[r].type = last'.msg.type)
         => /\ last'.kind # "throttled"
            /\ throttle_tracker' = throttle_tracker]_vars

\* under the wildcard rule, a second sighting of a vessel that no rule names
\* is published inside the rule's interval
C19_Witness ==
    /\ Processed
    /\ last.msg.mmsi = 111
    /\ \E r \in 1..Len(MMSI_TYPE_THROTTLE) :
          /\ MMSI_TYPE_THROTTLE[r].mmsi = Wildcard
          /\ MMSI_TYPE_THROTTLE[r].type = last.msg.type
          /\ Len(mmsi_data[last.topic]) = 2
          /\ mmsi_data[last.topic][1][1] = 111
          /\ now - mmsi_data[last.topic][1][2] < RuleInterval(MMSI_TYPE_THROTTLE[r])

(***************************************************************************)
(* C20.  For every setting of IGNORE_TYPES, the unset one included, a      *)
(* well-formed message on a configured topic that has an mmsi, whose type  *)
(* is not one of IGNORE_TYPES and which the throttle admits is appended to *)
(* its topic's window and published.                                       *)
(***************************************************************************)
C20_AdmittedMessageIsProcessed ==
    [][(/\ last'.kind # "idle"
        /\ last'.topic \in MQTT_TOPICS
        /\ last'.msg.wellformed
        /\ TruthyInt(last'.msg.mmsi)
        /\ \A i \in 1..Len(IGNORE_TYPES) : IGNORE_TYPES[i] # PyStr(last'.msg.type)
        /\ should_process_message(MMSI_TYPE_THROTTLE, throttle_tracker,
                                  last'.msg.mmsi, last'.msg.type, now).allow)
         => /\ last'.kind = "processed"
            /\ last'.posted # <<>>
            /\ last'.topic \in DOMAIN mmsi_data'
            /\ mmsi_data'[last'.topic][Len(mmsi_data'[last'.topic])]
                  = <<last'.msg.mmsi, now>>]_vars

(***************************************************************************)
(* C14.  When the HTTP request for the name of a vessel with no inline     *)
(* name and no cache entry fails (network error, HTTP error, undecodable   *)
(* or misshapen reply, ERROR field), no exception leaves the lookup: the   *)
(* run goes on, appends the sighting to its topic's window and publishes   *)
(* it under the name "Unknown".                                            *)
(***************************************************************************)
C14_LookupFailureFallsBack ==
    (/\ last.fetch = "issued"
     /\ last.outcome.kind \in {"neterr", "httperr", "badjson", "badshape", "errfield"})
      => /\ Processed
         /\ PostedName = Unknown
         /\ last.topic \in DOMAIN mmsi_data
         /\ mmsi_data[last.topic][Len(mmsi_data[last.topic])]
               = <<last.msg.mmsi, now>>

\* a reply that response.json() cannot decode, and the sighting published
C14_Witness ==
    /\ Processed
    /\ last.fetch = "issued"
    /\ last.outcome.kind = "badjson"
    /\ PostedName = Unknown
    /\ PyStr(last.msg.mmsi) \notin DOMAIN mmsi_name_lookup

(***************************************************************************)
(* C15.  Whatever comes of the writes of the state file and of the         *)
(* publish, a run of on_message leaves the windows and the name cache as   *)
(* a run whose calls all succeed leaves them: the sighting appended to its *)
(* topic's window, the expired entries of that window gone, the inline     *)
(* name cached if the vessel had no entry (every message of SpecStore has  *)
(* an inline name and no rule applies); the throttle state and the         *)
(* rate-limit clock are as before, and the publisher has been called.      *)
(***************************************************************************)
C15_FailuresLeaveMemoryAlone ==
    [][last'.topic \in MQTT_TOPICS =>
        LET id == PyStr(last'.msg.mmsi)
            old == IF last'.topic \in DOMAIN mmsi_data
                   THEN mmsi_data[last'.topic] ELSE <<>>
            kept == SelectSeq(Append(old, <<last'.msg.mmsi, now>>),
                              LAMBDA e : now - e[2] < WindowMinutes * 60)
        IN  /\ mmsi_data' = Put(mmsi_data, last'.topic, kept)
            /\ mmsi_name_lookup' =
                  IF id \in DOMAIN mmsi_name_lookup THEN mmsi_name_lookup
                  ELSE Put(mmsi_name_lookup, id, last'.msg.name)
            /\ throttle_tracker' = throttle_tracker
            /\ LAST_AISHUB_CALL' = LAST_AISHUB_CALL
            /\ last'.posted # <<>>]_vars

\* a run whose two writes of the state file and whose publish all failed
C15_Witness ==
    /\ Processed
    /\ last.results = <<"openfail", "writefail">>
    /\ last.post = "othererr"
    /\ last.evicted # <<>>
    /\ PyStr(last.msg.mmsi) \in DOMAIN mmsi_name_lookup

(***************************************************************************)
(* C16.  Saving the state and loading it again gives back the windows and  *)
(* the name cache: a process stopped with a successful save_mmsi_data and  *)
(* started again holds, after load_mmsi_data, the same entries per topic,  *)
(* with the same timestamps, and the same cache entries as before.         *)
(***************************************************************************)
C16_SaveThenLoadRestores ==
    [][(last'.kind = "restarted" /\ last'.results = <<"ok">>)
         => /\ mmsi_data' = mmsi_data
            /\ mmsi_name_lookup' = mmsi_name_lookup]_vars

\* a restart that brought back two windows, one of them full, and two names
C16_Witness ==
    /\ last.kind = "restarted"
    /\ last.results = <<"ok">>
    /\ DOMAIN mmsi_data = MQTT_TOPICS
    /\ Len(mmsi_data["ais/a"]) = MaxLen
    /\ Cardinality(DOMAIN mmsi_name_lookup) = 2

====
